---- MODULE Spec2Model ----
(***************************************************************************)
(* Model of trip_resolver.py: a table of trips is loaded and normalized,   *)
(* the pool of unique locations is built, every pool entry is geocoded by  *)
(* concurrently scheduled tasks, every trip is routed by concurrently      *)
(* scheduled tasks, and the enriched table is emitted.                     *)
(*                                                                         *)
(* Strings are sequences of one-character strings, so that the name        *)
(* normalization (re.sub + capitalize) and trip_code.lower() are computed  *)
(* character by character.                                                 *)
(***************************************************************************)
EXTENDS Integers, Sequences, FiniteSets, TLC

VARIABLES
    input_file,     \* rows of the input table not yet read (raw strings)
    geoFail,        \* names for which the geocoding service call fails
                    \* (fixed when the geocoding phase starts)
    routeFail,      \* coordinate pairs for which the routing service call fails
                    \* (fixed when the routing phase starts)
    pc,             \* position of main()
    source_data,    \* DataHandler.source_data
    locations,      \* DataHandler.locations (the pool)
    gtask,          \* state of each resolve_location task, by pool index
    geo_order,      \* pool indices in the order their tasks completed
    location_pool,  \* DataProcessing.location_pool
    rtask,          \* state of each exec_delayed task, by row index
    route_order,    \* row indices in the order their tasks completed
    routes,         \* DataHandler.routes
    trips,          \* DataHandler.trips
    output_file,    \* rows written to the output table
    log,            \* kinds of messages passed to Utils.log_info
    result,         \* how generate_output ended
    arg,            \* the argument of a function called on its own
    ret,            \* the values that function has returned, in order
    timers,         \* the Timer objects of simple_background_tasks.py
    now,            \* the time of the event loop, in seconds
    steps           \* Pipeline.steps of pipeline_steps.py

vars == <<input_file, geoFail, routeFail, pc, source_data, locations, gtask,
          geo_order, location_pool, rtask, route_order, routes, trips,
          output_file, log, result, arg, ret, timers, now, steps>>

----------------------------------------------------------------------------
(* Bounds and program constants *)

MaxRows == 2

global_http_chunks == 2

\* the longest raw name drawn for the name normalization
MaxNameLen == 3

\* how many times in a row the name normalization is applied
MaxApplications == 2

\* the largest number of whole hours in a seconds count given to format_time
MaxHours == 25

\* the longest list and the largest chunk size given to the chunking
MaxItems == 5

MaxStep == 3

\* the time, in seconds, up to which the event loop of the timers is followed
MaxTime == 7

\* the number of calls of generate_output made on one handler
MaxCalls == 2

\* the number of DataHandler instances constructed in one process
MaxHandlers == 2

\* the number of steps a Pipeline is filled with
MaxSteps == 3

----------------------------------------------------------------------------
(* Characters and strings *)

UpperCase == <<"A","B","C","D","E","F","G","H","I","J","K","L","M",
               "N","O","P","Q","R","S","T","U","V","W","X","Y","Z">>
LowerCase == <<"a","b","c","d","e","f","g","h","i","j","k","l","m",
               "n","o","p","q","r","s","t","u","v","w","x","y","z">>
Digits == {"0","1","2","3","4","5","6","7","8","9"}
Whitespace == {" "}

Range(s) == {s[i] : i \in DOMAIN s}

\* str.lower() on one character
lower_char(c) ==
    IF \E i \in DOMAIN UpperCase : UpperCase[i] = c
    THEN LowerCase[CHOOSE i \in DOMAIN UpperCase : UpperCase[i] = c]
    ELSE c

\* str.upper() on one character
upper_char(c) ==
    IF \E i \in DOMAIN LowerCase : LowerCase[i] = c
    THEN UpperCase[CHOOSE i \in DOMAIN LowerCase : LowerCase[i] = c]
    ELSE c

\* the character class [a-zA-Z0-9\s]
word_or_space(c) ==
    c \in Range(UpperCase) \cup Range(LowerCase) \cup Digits \cup Whitespace

\* re.sub(r'[^a-zA-Z0-9\s]', ' ', s)
re_sub(s) == [i \in 1..Len(s) |-> IF word_or_space(s[i]) THEN s[i] ELSE " "]

\* str.swapcase()
swapcase(s) ==
    [i \in 1..Len(s) |-> IF lower_char(s[i]) = s[i] THEN upper_char(s[i])
                                                    ELSE lower_char(s[i])]

\* str.capitalize()
capitalize(s) ==
    [i \in 1..Len(s) |-> IF i = 1 THEN upper_char(s[i]) ELSE lower_char(s[i])]

\* str.lower()
lower(s) == [i \in 1..Len(s) |-> lower_char(s[i])]

\* the location name normalization of __load
normalize_name(s) == capitalize(re_sub(s))

----------------------------------------------------------------------------
(* Input tables *)

RawNames == { <<"a","b">>, <<"A","B">>, <<"c","-","d">> }
RawCodes == { <<"T","1">>, <<"t","2">> }

RawRows == [trip_code : RawCodes, source : RawNames, destination : RawNames]

Tables == UNION {[1..n -> RawRows] : n \in 0..MaxRows}

NormNames == {normalize_name(n) : n \in RawNames}

----------------------------------------------------------------------------
(* The external services *)

None == [none |-> TRUE]

Lat(name) == <<"l","a","t",":">> \o name
Lon(name) == <<"l","o","n",":">> \o name
DisplayName(name) == <<"a","t",":">> \o name

\* CoordService.get_coords: the Location of the best match, or None on
\* HTTPException
get_coords(address) ==
    IF address \in geoFail
    THEN None
    ELSE [name |-> address, lat |-> Lat(address), lon |-> Lon(address),
          address |-> DisplayName(address)]

CoordOf(name) == [lat |-> Lat(name), lon |-> Lon(name)]

CoordPairs == {<<CoordOf(a), CoordOf(b)>> : a \in NormNames, b \in NormNames}

\* what the routing service answers for a coordinate pair
RouteLength(source, destination) == 10 * Len(source.lat) + Len(destination.lat)
RouteTime(source, destination) == 1000 * Len(source.lat) + 61 * Len(destination.lat)

\* CoordService.get_route_attributes: the RouteInfo, or None on HTTPException
get_route_attributes(trip_code, source, destination) ==
    IF <<source, destination>> \in routeFail
    THEN None
    ELSE [trip_code |-> trip_code,
          length |-> RouteLength(source, destination),
          time |-> RouteTime(source, destination),
          source |-> [lat |-> source.lat, lon |-> source.lon],
          destination |-> [lat |-> destination.lat, lon |-> destination.lon]]

----------------------------------------------------------------------------
(* Utils *)

\* Utils.format_time: relativedelta(seconds=int(value)) carries seconds into
\* minutes, hours and days; the label prints hours, minutes and seconds
format_time(value) ==
    <<(value \div 3600) % 24, (value \div 60) % 60, value % 60>>

\* "{0}, {1}".format(lat, lon)
format_coords(coord) == coord.lat \o <<",", " ">> \o coord.lon

----------------------------------------------------------------------------
(* DataHandler *)

\* next((item for item in seq if item[key] == value), None)
first_match(seq, key, value) ==
    IF \E i \in DOMAIN seq : seq[i][key] = value
    THEN seq[CHOOSE i \in DOMAIN seq :
                /\ seq[i][key] = value
                /\ \A j \in 1..(i-1) : seq[j][key] # value]
    ELSE None

\* DataHandler.get_location_object
get_location_object(pool, name) == first_match(pool, "name", name)

\* DataHandler.get_route_object
get_route_object(rts, trip_code) == first_match(rts, "trip_code", trip_code)

\* DataHandler.__load: the rows of the file are appended to source_data and
\* every row of source_data is normalized in place
load(data, file) ==
    LET ext == data \o file
    IN  [i \in 1..Len(ext) |->
            [trip_code |-> lower(ext[i].trip_code),
             source |-> normalize_name(ext[i].source),
             destination |-> normalize_name(ext[i].destination)]]

\* one iteration of the loop of DataHandler.__load_locations: both lookups
\* are made before either append
add_row_locations(pool, line_item) ==
    LET check_source == get_location_object(pool, line_item.source)
        check_destination == get_location_object(pool, line_item.destination)
        with_source ==
            IF check_source = None
            THEN Append(pool, [name |-> line_item.source])
            ELSE pool
    IN  IF check_destination = None
        THEN Append(with_source, [name |-> line_item.destination])
        ELSE with_source

RECURSIVE load_locations(_, _)
\* DataHandler.__load_locations
load_locations(data, pool) ==
    IF data = <<>>
    THEN pool
    ELSE load_locations(Tail(data), add_row_locations(pool, Head(data)))

----------------------------------------------------------------------------
(* Specification *)

Init ==
    /\ input_file \in Tables
    /\ geoFail = {}
    /\ routeFail = {}
    /\ pc = "start"
    /\ source_data = <<>>
    /\ locations = <<>>
    /\ gtask = <<>>
    /\ geo_order = <<>>
    /\ location_pool = <<>>
    /\ rtask = <<>>
    /\ route_order = <<>>
    /\ routes = <<>>
    /\ trips = <<>>
    /\ output_file = <<>>
    /\ log = {}
    /\ result = "none"
    /\ steps = <<>>
    /\ timers = <<>>
    /\ now = 0
    /\ arg = <<>>
    /\ ret = <<>>

\* a DataHandler.__init__ whose __load logs the IOError and goes on with no
\* rows
LoadContinues ==
    /\ pc = "start"
    /\ \/ /\ source_data' = load(source_data, input_file)
          /\ locations' = load_locations(source_data', locations)
          /\ log' = log \cup {"loaded"}
       \/ /\ log' = log \cup {"read_error"}
          /\ UNCHANGED <<source_data, locations>>
    /\ pc' = "boot"
    /\ input_file' = <<>>
    /\ UNCHANGED <<steps, timers, now, arg, ret, result,
                   geoFail, routeFail, gtask, geo_order, location_pool, rtask,
                   route_order, routes, trips, output_file>>

\* DataHandler.__init__: __load, then __load_locations; when the input file
\* cannot be opened or read, __load logs the IOError and calls sys.exit()
Load ==
    /\ pc = "start"
    /\ \/ /\ source_data' = load(source_data, input_file)
          /\ locations' = load_locations(source_data', locations)
          /\ log' = log \cup {"loaded"}
          /\ pc' = "boot"
          /\ UNCHANGED result
       \/ /\ log' = log \cup {"read_error"}
          /\ result' = "io_exit"
          /\ pc' = "exited"
          /\ UNCHANGED <<source_data, locations>>
    /\ input_file' = <<>>
    /\ UNCHANGED <<steps, timers, now, arg, ret,
                   geoFail, routeFail, gtask, geo_order, location_pool, rtask,
                   route_order, routes, trips, output_file>>

----------------------------------------------------------------------------
(* asyncio *)

\* main() is suspended at an await of asyncio.gather, so the event loop runs
\* the scheduled tasks
MainSuspended == pc \in {"geocoding", "routing"}

\* a gather that never raises the exception of a child into the awaiting
\* coroutine
gather_never_raises(states) == FALSE

\* asyncio.gather(*tasks) without return_exceptions: the first exception of a
\* child is raised into the awaiting coroutine, the other children keep running
gather_raises(states) == \E i \in DOMAIN states : states[i] = "failed"

\* asyncio.gather(*tasks) delivers its list once every child has a result
gather_returns(states) == \A i \in DOMAIN states : states[i] = "ok"

\* a gather that delivers its results last task first
gather_reversed(results) ==
    [i \in 1..Len(results) |-> results[Len(results) + 1 - i]]

\* asyncio.gather(*tasks): the results in the order of the tasks given
gather(results) == results

\* a batching that yields full chunks only
batched_strict(seq, n) ==
    [k \in 1..(Len(seq) \div n) |-> SubSeq(seq, (k - 1) * n + 1, k * n)]

\* itertools.batched(seq, n)
batched(seq, n) ==
    [k \in 1..((Len(seq) + n - 1) \div n) |->
        SubSeq(seq, (k - 1) * n + 1, IF k * n < Len(seq) THEN k * n ELSE Len(seq))]

RECURSIVE flatten(_)
\* [item for sublist in grouped for item in sublist]
flatten(grouped) ==
    IF grouped = <<>> THEN <<>> ELSE Head(grouped) \o flatten(Tail(grouped))

\* dict.update: the keys of other are written over those of item
dict_update(item, other) ==
    [k \in DOMAIN item \cup DOMAIN other |->
        IF k \in DOMAIN other THEN other[k] ELSE item[k]]

----------------------------------------------------------------------------
(* DataProcessing.__geocode_coords *)

\* resolve_location: after the delay, get_coords is called synchronously; a
\* None response raises at response["name"]
resolve_location(name) ==
    IF get_coords(name) = None THEN "failed" ELSE "ok"

\* the pool indices, chunked as list(batched(self.data.locations, chunks))
chunked_locations ==
    batched([i \in 1..Len(locations) |-> i], global_http_chunks)

\* exec_chunked: awaits the gather of its chunk's resolve_location tasks
exec_chunked(chunk) ==
    LET states == [j \in 1..Len(chunk) |-> gtask[chunk[j]]]
    IN  IF gather_raises(states) THEN "failed"
        ELSE IF gather_returns(states) THEN "ok"
        ELSE "awaiting"

chunk_tasks == [k \in 1..Len(chunked_locations) |-> exec_chunked(chunked_locations[k])]

\* the value of resolved_locations once the outer gather has returned
resolved_locations ==
    flatten(gather([k \in 1..Len(chunked_locations) |->
        gather([j \in 1..Len(chunked_locations[k]) |->
            get_coords(locations[chunked_locations[k][j]].name)])]))

\* an update loop that extends the pool with the resolved items
update_tagged_extend(pool, resolved) == pool \o resolved

\* the "update tagged data" loop: stops at the first entry whose name has no
\* resolved item (update(None) raises)
update_tagged(pool, resolved) ==
    LET missing == {i \in DOMAIN pool :
                        first_match(resolved, "name", pool[i].name) = None}
    IN  [i \in 1..Len(pool) |->
            IF \E m \in missing : m <= i
            THEN pool[i]
            ELSE dict_update(pool[i], first_match(resolved, "name", pool[i].name))]

update_raises(pool, resolved) ==
    \E i \in DOMAIN pool : first_match(resolved, "name", pool[i].name) = None

\* a variant of the except branch that returns what had resolved when the
\* exception arrived
geocode_except_partial ==
    LET done == SelectSeq([i \in 1..Len(locations) |-> i],
                          LAMBDA i : gtask[i] = "ok")
    IN  [k \in 1..Len(done) |-> get_coords(locations[done[k]].name)]

\* the except branch of __geocode_coords
geocode_except == <<>>

\* how often get_coords has been called with a name: each completed
\* resolve_location task has made exactly one call
geocode_calls(name) ==
    Cardinality({k \in DOMAIN geo_order : locations[geo_order[k]].name = name})

\* a __geocode_coords that launches the tasks of the first chunk only
StartGeocodeFirstChunk ==
    /\ pc = "boot"
    /\ geoFail' \in SUBSET NormNames
    /\ gtask' = [i \in 1..Len(locations) |->
                    IF i <= global_http_chunks THEN "sleeping" ELSE "unlaunched"]
    /\ log' = log \cup {"geo_started"}
    /\ pc' = "geocoding"
    /\ UNCHANGED <<steps, timers, now, arg, ret,
                   input_file, routeFail, source_data, locations,
                   geo_order, location_pool, rtask, route_order, routes, trips,
                   output_file, result>>

\* __geocode_coords up to the await of the outer gather; the names the
\* geocoding service fails for during this run are the environment's choice
StartGeocode ==
    /\ pc = "boot"
    /\ geoFail' \in SUBSET NormNames
    /\ gtask' = [i \in 1..Len(locations) |-> "sleeping"]
    /\ log' = log \cup {"geo_started"}
    /\ pc' = "geocoding"
    /\ UNCHANGED <<steps, timers, now, arg, ret,
                   input_file, routeFail, source_data, locations,
                   geo_order, location_pool, rtask, route_order, routes, trips,
                   output_file, result>>

\* a resolve_location that writes its response into its pool entry itself
ResolveLocationWriting(i) ==
    /\ MainSuspended
    /\ i \in DOMAIN gtask
    /\ gtask[i] = "sleeping"
    /\ gtask' = [gtask EXCEPT ![i] = resolve_location(locations[i].name)]
    /\ geo_order' = Append(geo_order, i)
    /\ locations' = IF get_coords(locations[i].name) = None
                    THEN locations
                    ELSE [locations EXCEPT
                            ![i] = dict_update(@, get_coords(locations[i].name))]
    /\ UNCHANGED <<steps, timers, now, arg, ret,
                   input_file, geoFail, routeFail, pc, source_data,
                   location_pool, rtask, route_order, routes, trips,
                   output_file, log, result>>

\* one resolve_location task wakes from its sleep and makes its call
ResolveLocation(i) ==
    /\ MainSuspended
    /\ i \in DOMAIN gtask
    /\ gtask[i] = "sleeping"
    /\ gtask' = [gtask EXCEPT ![i] = resolve_location(locations[i].name)]
    /\ geo_order' = Append(geo_order, i)
    /\ UNCHANGED <<steps, timers, now, arg, ret,
                   input_file, geoFail, routeFail, pc, source_data, locations,
                   location_pool, rtask, route_order, routes, trips,
                   output_file, log, result>>

\* __geocode_coords resumes from the outer gather with its list, which it
\* keeps in the local resolved
GeocodeReturn ==
    /\ pc = "geocoding"
    /\ gather_returns(chunk_tasks)
    /\ \E resolved \in {resolved_locations} :
          /\ locations' = update_tagged(locations, resolved)
          /\ IF update_raises(locations, resolved)
             THEN /\ location_pool' = geocode_except
                  /\ log' = log \cup {"geo_completed", "geo_error"}
             ELSE /\ location_pool' = resolved
                  /\ log' = log \cup {"geo_completed"}
    /\ pc' = "routes"
    /\ UNCHANGED <<steps, timers, now, arg, ret,
                   input_file, geoFail, routeFail, source_data, gtask,
                   geo_order, rtask, route_order, routes, trips, output_file,
                   result>>

\* an except branch that first writes the coordinates that had resolved into
\* their pool entries
GeocodeRaiseMerging ==
    /\ pc = "geocoding"
    /\ gather_raises(chunk_tasks)
    /\ locations' = [i \in 1..Len(locations) |->
                        IF gtask[i] = "ok"
                        THEN dict_update(locations[i], get_coords(locations[i].name))
                        ELSE locations[i]]
    /\ location_pool' = geocode_except
    /\ log' = log \cup {"geo_error"}
    /\ pc' = "routes"
    /\ UNCHANGED <<steps, timers, now, arg, ret,
                   input_file, geoFail, routeFail, source_data,
                   gtask, geo_order, rtask, route_order, routes, trips,
                   output_file, result>>

\* __geocode_coords resumes from the outer gather with an exception
GeocodeRaise ==
    /\ pc = "geocoding"
    /\ gather_raises(chunk_tasks)
    /\ location_pool' = geocode_except
    /\ log' = log \cup {"geo_error"}
    /\ pc' = "routes"
    /\ UNCHANGED <<steps, timers, now, arg, ret,
                   input_file, geoFail, routeFail, source_data, locations,
                   gtask, geo_order, rtask, route_order, routes, trips,
                   output_file, result>>

----------------------------------------------------------------------------
(* DataProcessing.__process_routes *)

\* the guard of __process_routes
pool_usable(pool) == Len(pool) > 0

\* building the task of one row raises when a lookup misses (None["lat"]) or
\* the Location found has no "lat"/"lon" key
row_raises(pool, item) ==
    LET data_source == get_location_object(pool, item.source)
        data_destination == get_location_object(pool, item.destination)
    IN  \/ data_source = None
        \/ data_destination = None
        \/ ~({"lat", "lon"} \subseteq DOMAIN data_source)
        \/ ~({"lat", "lon"} \subseteq DOMAIN data_destination)

\* the arguments of the exec_delayed task of one row
route_request(pool, item) ==
    LET data_source == get_location_object(pool, item.source)
        data_destination == get_location_object(pool, item.destination)
    IN  [trip_code |-> item.trip_code,
         source |-> [lat |-> data_source.lat, lon |-> data_source.lon],
         destination |-> [lat |-> data_destination.lat, lon |-> data_destination.lon]]

\* the response of the routing call of one row
route_response(pool, item) ==
    LET req == route_request(pool, item)
    IN  get_route_attributes(req.trip_code, req.source, req.destination)

\* exec_delayed: after the delay, get_route_attributes is called
\* synchronously; a None response raises at response["length"]
exec_delayed(pool, item) ==
    IF route_response(pool, item) = None THEN "failed" ELSE "ok"

\* an except branch that returns the RouteResults of the calls that succeeded
routes_except_partial ==
    LET done == SelectSeq([r \in 1..Len(source_data) |-> r],
                          LAMBDA r : r \in DOMAIN rtask /\ rtask[r] = "ok")
    IN  [k \in 1..Len(done) |-> route_response(locations, source_data[done[k]])]

\* the except branch of __process_routes falls through to "return []"
routes_except == <<>>

\* the list the routing gather delivers
resolved_routes ==
    gather([r \in 1..Len(source_data) |-> route_response(locations, source_data[r])])

\* __process_routes without its guard and without the lookups made while the
\* tasks are built: one task per row, whatever the pool holds
StartRoutesEager ==
    /\ pc = "routes"
    /\ routeFail' \in {{}} \cup {{p} : p \in CoordPairs}
    /\ rtask' = [r \in 1..Len(source_data) |-> "sleeping"]
    /\ pc' = "routing"
    /\ UNCHANGED <<steps, timers, now, arg, ret, routes, log,
                   input_file, geoFail, source_data, locations,
                   gtask, geo_order, location_pool, route_order, trips,
                   output_file, result>>

\* __process_routes up to the await of the gather; the coordinate pairs the
\* routing service fails for during this run are the environment's choice
StartRoutes ==
    /\ pc = "routes"
    /\ IF ~pool_usable(location_pool)
       THEN /\ routes' = <<>>
            /\ pc' = "output"
            /\ UNCHANGED <<rtask, log, routeFail>>
       ELSE IF \E r \in DOMAIN source_data : row_raises(locations, source_data[r])
       THEN /\ routes' = routes_except
            /\ log' = log \cup {"route_error"}
            /\ pc' = "output"
            /\ UNCHANGED <<rtask, routeFail>>
       ELSE /\ routeFail' \in {{}} \cup {{p} : p \in CoordPairs}
            /\ rtask' = [r \in 1..Len(source_data) |-> "sleeping"]
            /\ pc' = "routing"
            /\ UNCHANGED <<routes, log>>
    /\ UNCHANGED <<steps, timers, now, arg, ret,
                   input_file, geoFail, source_data, locations,
                   gtask, geo_order, location_pool, route_order, trips,
                   output_file, result>>

\* one exec_delayed task wakes from its sleep and makes its call
ExecDelayed(r) ==
    /\ MainSuspended
    /\ r \in DOMAIN rtask
    /\ rtask[r] = "sleeping"
    /\ rtask' = [rtask EXCEPT ![r] = exec_delayed(locations, source_data[r])]
    /\ route_order' = Append(route_order, r)
    /\ UNCHANGED <<steps, timers, now, arg, ret,
                   input_file, geoFail, routeFail, pc, source_data, locations,
                   gtask, geo_order, location_pool, routes, trips, output_file,
                   log, result>>

\* a route resolver that resumes as soon as one routing task has a result,
\* with the results there are
RoutesReturnFirstCompleted ==
    /\ pc = "routing"
    /\ \E r \in DOMAIN rtask : rtask[r] = "ok"
    /\ routes' =
          LET done == SelectSeq([r \in 1..Len(source_data) |-> r],
                                LAMBDA r : rtask[r] = "ok")
          IN  [k \in 1..Len(done) |-> route_response(locations, source_data[done[k]])]
    /\ pc' = "output"
    /\ UNCHANGED <<steps, timers, now, arg, ret,
                   input_file, geoFail, routeFail, source_data, locations,
                   gtask, geo_order, location_pool, rtask, route_order, trips,
                   output_file, log, result>>

\* __process_routes resumes from the gather with its list
RoutesReturn ==
    /\ pc = "routing"
    /\ gather_returns(rtask)
    /\ routes' = resolved_routes
    /\ pc' = "output"
    /\ UNCHANGED <<steps, timers, now, arg, ret,
                   input_file, geoFail, routeFail, source_data, locations,
                   gtask, geo_order, location_pool, rtask, route_order, trips,
                   output_file, log, result>>

\* __process_routes resumes from the gather with an exception
RoutesRaise ==
    /\ pc = "routing"
    /\ gather_raises(rtask)
    /\ routes' = routes_except
    /\ log' = log \cup {"route_error"}
    /\ pc' = "output"
    /\ UNCHANGED <<steps, timers, now, arg, ret,
                   input_file, geoFail, routeFail, source_data, locations,
                   gtask, geo_order, location_pool, rtask, route_order, trips,
                   output_file, result>>

----------------------------------------------------------------------------
(* DataHandler.generate_output *)

\* a variant of the guard that lets an empty route list through
has_routes_or_none(rts) == Len(rts) >= 0

\* the guard of generate_output
has_routes(rts) == Len(rts) > 0

\* the record appended for one row
trip_info(loc, route) ==
    [trip_code |-> loc.trip_code,
     length |-> route.length,
     time |-> format_time(route.time),
     source |-> loc.source,
     source_coords |-> format_coords(route.source),
     destination |-> loc.destination,
     destination_coords |-> format_coords(route.destination)]

\* a variant of the loop that visits the rows in the order in which their
\* routing tasks completed
output_rows_by_arrival(data) ==
    IF Len(route_order) = Len(data)
    THEN [i \in 1..Len(data) |-> data[route_order[i]]]
    ELSE data

\* the rows the loop of generate_output visits, in its order
output_rows(data) == data

\* the loop raises at the first row without a route (None["length"])
output_raises(data, rts) ==
    \E i \in DOMAIN data : get_route_object(rts, data[i].trip_code) = None

\* the records appended to trips by the loop (those before the first row
\* without a route when it raises)
appended_trips(data, rts) ==
    LET rows == output_rows(data)
        stop == IF output_raises(rows, rts)
                THEN (CHOOSE i \in DOMAIN rows :
                        /\ get_route_object(rts, rows[i].trip_code) = None
                        /\ \A j \in 1..(i-1) :
                              get_route_object(rts, rows[j].trip_code) # None) - 1
                ELSE Len(rows)
    IN  [i \in 1..stop |->
            trip_info(rows[i], get_route_object(rts, rows[i].trip_code))]

\* generate_output, with save_output_file (data[0] raises on an empty list;
\* when the output file cannot be written, the IOError is logged and
\* sys.exit() is called)
GenerateOutput ==
    /\ pc = "output"
    /\ IF has_routes(routes)
       THEN /\ trips' = trips \o appended_trips(source_data, routes)
            /\ IF output_raises(source_data, routes) \/ trips' = <<>>
               THEN /\ result' = "crashed"
                    /\ pc' = "finished"
                    /\ UNCHANGED <<output_file, log>>
               ELSE \/ /\ output_file' = trips'
                       /\ log' = log \cup {"output_ok"}
                       /\ result' = "written"
                       /\ pc' = "finished"
                    \/ /\ log' = log \cup {"write_error"}
                       /\ result' = "io_exit"
                       /\ pc' = "exited"
                       /\ UNCHANGED output_file
       ELSE /\ log' = log \cup {"no_routes"}
            /\ result' = "no_routes"
            /\ pc' = "finished"
            /\ UNCHANGED <<trips, output_file>>
    /\ UNCHANGED <<steps, timers, now, arg, ret,
                   input_file, geoFail, routeFail, source_data, locations,
                   gtask, geo_order, location_pool, rtask, route_order, routes>>

\* asyncio.run: when main() has ended, the tasks still pending are cancelled
cancel_pending(states) ==
    [i \in DOMAIN states |-> IF states[i] = "sleeping" THEN "cancelled" ELSE states[i]]

Shutdown ==
    /\ pc = "finished"
    /\ gtask' = cancel_pending(gtask)
    /\ rtask' = cancel_pending(rtask)
    /\ pc' = "done"
    /\ UNCHANGED <<steps, timers, now, arg, ret,
                   input_file, geoFail, routeFail, source_data, locations,
                   geo_order, location_pool, route_order, routes, trips,
                   output_file, log, result>>

----------------------------------------------------------------------------

Next ==
    \/ Load
    \/ StartGeocode
    \/ \E i \in 1..(2 * MaxRows) : ResolveLocation(i)
    \/ GeocodeReturn
    \/ GeocodeRaise
    \/ StartRoutes
    \/ \E r \in 1..MaxRows : ExecDelayed(r)
    \/ RoutesReturn
    \/ RoutesRaise
    \/ GenerateOutput
    \/ Shutdown

Spec == Init /\ [][Next]_vars

----------------------------------------------------------------------------
(* generate_output as a unit: called on a handler whose rows are loaded,    *)
(* whose pool is resolved and whose routes cover any subset of the rows     *)

\* the RouteInfo list holding the routes of the rows picked, in row order
routes_of(data, pool, picked) ==
    LET idx == SelectSeq([i \in 1..Len(data) |-> i], LAMBDA i : i \in picked)
    IN  [k \in 1..Len(idx) |-> route_response(pool, data[idx[k]])]

InitOutput ==
    /\ input_file = <<>>
    /\ geoFail = {}
    /\ routeFail = {}
    /\ pc = "output"
    /\ source_data \in {load(<<>>, t) : t \in Tables}
    /\ locations = LET pool == load_locations(source_data, <<>>)
                   IN  [i \in 1..Len(pool) |-> get_coords(pool[i].name)]
    /\ gtask = [i \in 1..Len(locations) |-> "ok"]
    /\ geo_order = [i \in 1..Len(locations) |-> i]
    /\ location_pool = locations
    /\ rtask = <<>>
    /\ route_order = <<>>
    /\ routes \in {routes_of(source_data, locations, picked) :
                      picked \in SUBSET (1..Len(source_data))}
    /\ trips = <<>>
    /\ output_file = <<>>
    /\ log = {}
    /\ result = "none"
    /\ steps = <<>>
    /\ timers = <<>>
    /\ now = 0
    /\ arg = <<>>
    /\ ret = <<>>

NextOutput ==
    \/ GenerateOutput
    \/ Shutdown

SpecOutput == InitOutput /\ [][NextOutput]_vars

----------------------------------------------------------------------------
(* Properties *)

ReferencedNames ==
    {source_data[r].source : r \in DOMAIN source_data}
        \cup {source_data[r].destination : r \in DOMAIN source_data}

PoolNames == {locations[i].name : i \in DOMAIN locations}

Resolved(loc) == {"lat", "lon"} \subseteq DOMAIN loc

RowKey(row) == <<row.trip_code, row.source, row.destination>>

Keys(rows) == [i \in 1..Len(rows) |-> RowKey(rows[i])]

HasRoute(row) == \E k \in DOMAIN routes : routes[k].trip_code = row.trip_code

\* C1: once the pool is built it holds exactly one Location per distinct
\* normalized name referenced as a source or destination: no two entries
\* share a name and the pool is as long as the set of referenced names.
C1_PoolDedup ==
    pc # "start" =>
        /\ \A i, j \in DOMAIN locations :
              i # j => locations[i].name # locations[j].name
        /\ Len(locations) = Cardinality(ReferencedNames)

\* C2: over a whole run the geocoding client is invoked exactly once for each
\* distinct normalized name: never more than once, and once by the end.
C2_GeocodedOncePerName ==
    /\ \A n \in ReferencedNames : geocode_calls(n) <= 1
    /\ pc = "done" => \A n \in ReferencedNames : geocode_calls(n) = 1

\* C3: when geocoding fails for exactly one Location of the pool and no
\* routing call fails, the output holds exactly the trips that do not
\* reference that Location, in input order.
C3_OnlyFailedTripsDropped ==
    (pc = "done" /\ Cardinality(geoFail \cap PoolNames) = 1 /\ routeFail = {}) =>
        LET f == CHOOSE n \in geoFail \cap PoolNames : TRUE
            kept == SelectSeq(source_data,
                        LAMBDA row : row.source # f /\ row.destination # f)
        IN  Keys(output_file) = Keys(kept)

\* C4: when one geocoding call has failed, the resolver has returned the
\* subset that resolved: the failing Location has no coordinates, every
\* Location whose call succeeded carries the coordinates returned for it, and
\* the returned list holds the results of the calls that succeeded.
C4_PartialGeocodeMerged ==
    (pc = "routes" /\ Cardinality({i \in DOMAIN gtask : gtask[i] = "failed"}) = 1) =>
        /\ \A i \in DOMAIN gtask :
              /\ gtask[i] = "failed" => ~Resolved(locations[i])
              /\ gtask[i] = "ok" =>
                    /\ Resolved(locations[i])
                    /\ locations[i] = get_coords(locations[i].name)
        /\ location_pool =
              LET done == SelectSeq([i \in 1..Len(locations) |-> i],
                                    LAMBDA i : gtask[i] = "ok")
              IN  [k \in 1..Len(done) |-> get_coords(locations[done[k]].name)]

\* C5: when the routing call of one trip has failed and the calls of all the
\* other trips have succeeded, the route resolver returns the RouteResult of
\* every other trip and none for the failed trip.
C5_PartialRoutesReturned ==
    (/\ pc = "output"
     /\ rtask # <<>>
     /\ Cardinality({r \in DOMAIN rtask : rtask[r] = "failed"}) = 1
     /\ \A r \in DOMAIN rtask : rtask[r] \in {"failed", "ok"}) =>
        routes =
            LET done == SelectSeq([r \in 1..Len(source_data) |-> r],
                                  LAMBDA r : rtask[r] = "ok")
            IN  [k \in 1..Len(done) |->
                    route_response(locations, source_data[done[k]])]

\* C6: after the route resolver has returned, every row whose two endpoint
\* Locations carry coordinates has exactly one RouteResult with its
\* trip_code, and every row with an unresolved endpoint has none.
C6_JoinCompleteness ==
    pc = "output" =>
        \A r \in DOMAIN source_data :
            LET row == source_data[r]
                src == get_location_object(locations, row.source)
                dst == get_location_object(locations, row.destination)
                both == /\ src # None /\ dst # None
                        /\ Resolved(src) /\ Resolved(dst)
                n == Cardinality({k \in DOMAIN routes :
                                    routes[k].trip_code = row.trip_code})
            IN  IF both THEN n = 1 ELSE n = 0

\* C7: the emitted records are the input rows that have a RouteResult, in
\* input order, whatever the order in which the tasks completed.
C7_OutputInInputOrder ==
    result = "written" =>
        Keys(output_file) = Keys(SelectSeq(source_data, HasRoute))

C7_Witness ==
    /\ pc = "done"
    /\ result = "written"
    /\ Len(output_file) = 2
    /\ output_file[1].trip_code # output_file[2].trip_code
    /\ route_order = <<2, 1>>
    /\ geo_order[1] # 1

\* what the run must produce, as a function of the loaded table and of the
\* service answers alone
ExpectedGeoOk == \A i \in DOMAIN locations : locations[i].name \notin geoFail

ExpectedLocations ==
    [i \in 1..Len(locations) |->
        IF ExpectedGeoOk
        THEN [name |-> locations[i].name,
              lat |-> Lat(locations[i].name),
              lon |-> Lon(locations[i].name),
              address |-> DisplayName(locations[i].name)]
        ELSE [name |-> locations[i].name]]

ExpectedLocationPool == IF ExpectedGeoOk THEN ExpectedLocations ELSE <<>>

ExpectedRouteOk ==
    /\ ExpectedGeoOk
    /\ \A r \in DOMAIN source_data :
          <<CoordOf(source_data[r].source), CoordOf(source_data[r].destination)>>
              \notin routeFail

ExpectedRoutes ==
    IF ExpectedRouteOk
    THEN [r \in 1..Len(source_data) |->
            LET s == CoordOf(source_data[r].source)
                d == CoordOf(source_data[r].destination)
            IN  [trip_code |-> source_data[r].trip_code,
                 length |-> RouteLength(s, d),
                 time |-> RouteTime(s, d),
                 source |-> s,
                 destination |-> d]]
    ELSE <<>>

ExpectedOutput ==
    IF ExpectedRoutes = <<>>
    THEN <<>>
    ELSE [r \in 1..Len(source_data) |->
            LET first == CHOOSE k \in DOMAIN source_data :
                            /\ source_data[k].trip_code = source_data[r].trip_code
                            /\ \A j \in 1..(k-1) :
                                  source_data[j].trip_code # source_data[r].trip_code
            IN  trip_info(source_data[r], ExpectedRoutes[first])]

\* C8: for a fixed table and fixed service answers the merged pool, the list
\* of RouteResults and the emitted records are the same for every
\* interleaving and completion order of the tasks: each is the value
\* determined by the table and the answers alone.
C8_ResultIndependentOfInterleaving ==
    /\ pc \in {"routes", "routing", "output", "finished", "done"} =>
          /\ locations = ExpectedLocations
          /\ location_pool = ExpectedLocationPool
    /\ pc \in {"output", "finished", "done"} => routes = ExpectedRoutes
    /\ pc \in {"finished", "done"} =>
          /\ output_file = ExpectedOutput
          /\ trips = ExpectedOutput

C8_Witness ==
    /\ pc = "done"
    /\ result = "written"
    /\ Len(geo_order) >= 2
    /\ geo_order[1] # 1
    /\ Len(route_order) >= 2
    /\ route_order[1] # 1
    /\ Len(output_file) >= 2

\* C9: generate_output with a non-empty set of RouteResults that lacks the
\* RouteResult of some row does not fail: it omits that row and emits a
\* record for every row that has a RouteResult.
C9_MissingRouteRowOmitted ==
    (/\ pc \in {"finished", "done"}
     /\ routes # <<>>
     /\ \E r \in DOMAIN source_data : ~HasRoute(source_data[r])) =>
        /\ result = "written"
        /\ Keys(output_file) = Keys(SelectSeq(source_data, HasRoute))

\* C10: whenever no RouteResult exists at the output phase, no output is
\* written, the "no route information resolved" condition is reported and the
\* run does not crash.
C10_NoRoutesNoOutput ==
    (pc \in {"finished", "done"} /\ Len(routes) = 0) =>
        /\ result = "no_routes"
        /\ "no_routes" \in log
        /\ "output_ok" \notin log
        /\ output_file = <<>>

C10_Witness ==
    /\ pc = "done"
    /\ source_data = <<>>
    /\ locations = <<>>
    /\ routes = <<>>
    /\ result = "no_routes"

-----------------------------------------------------------------------------
(* The route resolver and the batched resolver *)

\* C11: when the geocoding phase has handed an empty list to the route
\* resolver, the route resolver creates no routing task, makes no routing
\* call and returns zero routes.
C11_NoRoutingOnEmptyPool ==
    (pc \in {"routing", "output", "finished", "done"} /\ location_pool = <<>>) =>
        /\ rtask = <<>>
        /\ route_order = <<>>
        /\ routes = <<>>

C11_Witness ==
    /\ pc = "output"
    /\ source_data # <<>>
    /\ "geo_error" \in log
    /\ location_pool = <<>>
    /\ route_order = <<>>
    /\ routes = <<>>

\* C12: when every geocoding call of the run has succeeded, once the batched
\* resolver has returned every pool entry carries the name, latitude,
\* longitude and address that the geocoding service returned for that
\* entry's own name, and the returned list holds one result per pool entry,
\* in pool order.
C12_AllSucceedMergedInOrder ==
    (/\ pc \in {"routes", "routing", "output", "finished", "done"}
     /\ \A i \in DOMAIN gtask : gtask[i] = "ok") =>
        /\ \A i \in DOMAIN locations :
              /\ locations[i].lat = Lat(locations[i].name)
              /\ locations[i].lon = Lon(locations[i].name)
              /\ locations[i].address = DisplayName(locations[i].name)
        /\ Len(location_pool) = Len(locations)
        /\ \A i \in DOMAIN location_pool :
              location_pool[i] = get_coords(locations[i].name)

C12_Witness ==
    /\ pc = "routes"
    /\ Len(locations) >= 3
    /\ \A i \in DOMAIN gtask : gtask[i] = "ok"
    /\ geo_order[1] = 3
    /\ locations[1].name # locations[3].name
    /\ location_pool[3].name = locations[3].name

-----------------------------------------------------------------------------
(* The pool of locations *)

\* the endpoints of the rows in scan order: rows in input order and, within a
\* row, source before destination
Endpoints(data) ==
    [k \in 1..(2 * Len(data)) |->
        IF k % 2 = 1 THEN data[(k + 1) \div 2].source
                     ELSE data[k \div 2].destination]

\* the elements of seq at their first occurrence, later repetitions removed
FirstSeen(seq) ==
    LET firsts == SelectSeq([k \in 1..Len(seq) |-> k],
                            LAMBDA k : \A j \in 1..(k - 1) : seq[j] # seq[k])
    IN  [k \in 1..Len(firsts) |-> seq[firsts[k]]]

PoolNameSeq == [i \in 1..Len(locations) |-> locations[i].name]

\* C13: the pool lists the location names in first-seen order: the name at
\* position k of the pool is the k-th distinct name met when the rows are
\* scanned in input order, source before destination.
C13_PoolInFirstSeenOrder ==
    pc # "start" => PoolNameSeq = FirstSeen(Endpoints(source_data))

\* the distinct names of the pool, in pool order, are in first-seen order
PoolDistinctInFirstSeenOrder ==
    pc # "start" => FirstSeen(PoolNameSeq) = FirstSeen(Endpoints(source_data))

-----------------------------------------------------------------------------
(* The name normalization of DataHandler.__load, called on its own *)

\* raw names: every string of at most MaxNameLen characters of NameAlphabet
\* (a lower-case letter, an upper-case letter, a digit, whitespace and two
\* punctuation characters), and two names of a real place
NameAlphabet == {"a", "B", "1", " ", "-", "!"}

RawExamples == { <<"L","a","g","o","s">>, <<"L","a","g","o","s","!">> }

RawStrings == UNION {[1..k -> NameAlphabet] : k \in 0..MaxNameLen} \cup RawExamples

InitNormalize ==
    /\ pc = "normalize"
    /\ arg \in RawStrings
    /\ ret = <<>>
    /\ input_file = <<>>
    /\ geoFail = {}
    /\ routeFail = {}
    /\ source_data = <<>>
    /\ locations = <<>>
    /\ gtask = <<>>
    /\ geo_order = <<>>
    /\ location_pool = <<>>
    /\ rtask = <<>>
    /\ route_order = <<>>
    /\ routes = <<>>
    /\ trips = <<>>
    /\ output_file = <<>>
    /\ log = {}
    /\ result = "none"
    /\ steps = <<>>
    /\ timers = <<>>
    /\ now = 0

\* line_item['source'] = re.sub(...).capitalize(), applied to the raw name and
\* then again to the value already stored
NormalizeName ==
    /\ pc = "normalize"
    /\ Len(ret) < MaxApplications
    /\ ret' = Append(ret, normalize_name(IF ret = <<>> THEN arg ELSE ret[Len(ret)]))
    /\ UNCHANGED <<steps, timers, now, arg, pc, input_file, geoFail, routeFail, source_data,
                   locations, gtask, geo_order, location_pool, rtask,
                   route_order, routes, trips, output_file, log, result>>

NextNormalize == NormalizeName

SpecNormalize == InitNormalize /\ [][NextNormalize]_vars

\* the characters of s that re_sub keeps
keep_word_or_space(s) == SelectSeq(s, word_or_space)

\* x and y differ only in punctuation characters and in letter case
DifferOnlyInPunctuationAndCase(x, y) ==
    lower(keep_word_or_space(x)) = lower(keep_word_or_space(y))

\* C14: the name normalization is idempotent: normalizing a name that is
\* already normalized returns it unchanged.
C14_NormalizationIdempotent ==
    pc = "normalize" => \A k \in 2..Len(ret) : ret[k] = ret[k - 1]

C14_Witness ==
    /\ pc = "normalize"
    /\ arg = <<"a", "-", "B">>
    /\ Len(ret) = 2
    /\ ret[1] = <<"A", " ", "b">>
    /\ ret[2] = ret[1]

\* C15: two raw names that differ only in punctuation characters and letter
\* case normalize to the same key; "Lagos!" and "Lagos" are such a pair.
C15_PunctuationAndCaseCollapse ==
    (pc = "normalize" /\ Len(ret) >= 1) =>
        \A other \in RawStrings :
            DifferOnlyInPunctuationAndCase(arg, other) =>
                normalize_name(other) = ret[1]

-----------------------------------------------------------------------------
(* CoordService.get_coords in its two variants, called on its own *)

\* how a call ends: with a returned value or with a raised exception
Returned(value) == [kind |-> "return", value |-> value]
Raised(exception) == [kind |-> "raise", value |-> exception]

\* trip_resolver.py: the except branch of get_coords returns None
trip_resolver_get_coords(address) == Returned(get_coords(address))

\* resolver.py: the except branch of get_coords calls sys.exit(), which raises
\* SystemExit
resolver_get_coords(address) ==
    IF address \in geoFail
    THEN Raised("SystemExit")
    ELSE Returned([name |-> address, lat |-> Lat(address), lon |-> Lon(address),
                   address |-> DisplayName(address)])

\* an except clause that catches every exception, as "except BaseException"
except_BaseException_catches(exception) == TRUE

\* no except clause at all
except_nothing(exception) == FALSE

\* "except Exception" catches every exception but the BaseException-only ones
except_Exception_catches(exception) ==
    exception \notin {"SystemExit", "KeyboardInterrupt", "GeneratorExit",
                      "CancelledError"}

Variants == {"trip_resolver.py", "resolver.py"}

Addresses == {normalize_name(s) : s \in RawStrings}

\* a geocoding call is about to be made for an address; the transport fails
\* for it or not
InitClient ==
    /\ pc = "client"
    /\ arg \in [variant : Variants, address : Addresses]
    /\ geoFail \in {{}, {arg.address}}
    /\ ret = <<>>
    /\ input_file = <<>>
    /\ routeFail = {}
    /\ source_data = <<>>
    /\ locations = <<>>
    /\ gtask = <<>>
    /\ geo_order = <<>>
    /\ location_pool = <<>>
    /\ rtask = <<>>
    /\ route_order = <<>>
    /\ routes = <<>>
    /\ trips = <<>>
    /\ output_file = <<>>
    /\ log = {}
    /\ result = "none"
    /\ steps = <<>>
    /\ timers = <<>>
    /\ now = 0

\* response = self.service.get_coords(name)
ClientCall ==
    /\ pc = "client"
    /\ ret' = <<IF arg.variant = "resolver.py"
                THEN resolver_get_coords(arg.address)
                ELSE trip_resolver_get_coords(arg.address)>>
    /\ pc' = "called"
    /\ UNCHANGED <<steps, timers, now, arg, input_file, geoFail, routeFail, source_data,
                   locations, gtask, geo_order, location_pool, rtask,
                   route_order, routes, trips, output_file, log, result>>

\* the caller gets the returned value; a raised exception that the
\* "except Exception" of __geocode_coords does not catch leaves asyncio.run
\* and ends the process
ClientOutcome ==
    /\ pc = "called"
    /\ pc' = IF ret[1].kind = "raise" /\ ~except_Exception_catches(ret[1].value)
             THEN "exited"
             ELSE "caller"
    /\ UNCHANGED <<steps, timers, now, arg, ret, input_file, geoFail, routeFail, source_data,
                   locations, gtask, geo_order, location_pool, rtask,
                   route_order, routes, trips, output_file, log, result>>

NextClient == ClientCall \/ ClientOutcome

SpecClient == InitClient /\ [][NextClient]_vars

\* C16: in both variants of the geocoding client, a transport failure of a
\* geocoding call reaches the caller as a returned failure value and does not
\* end the process.
C16_TransportFailureIsAResult ==
    (pc \in {"called", "caller", "exited"} /\ arg.address \in geoFail) =>
        /\ ret[1].kind = "return"
        /\ ret[1].value = None
        /\ pc # "exited"

-----------------------------------------------------------------------------
(* Failures, phases and tasks *)

\* C17: whatever geocoding and routing calls fail, no exception leaves
\* bootstrap or generate_output: a gather that is awaited always has a task
\* left to run or a result to resume with, and generate_output ends either
\* with an output file or with the "no route information resolved" report.
C17_NoCallFailureEscapes ==
    /\ result # "crashed"
    /\ pc = "geocoding" =>
          \/ \E i \in DOMAIN gtask : gtask[i] = "sleeping"
          \/ gather_returns(chunk_tasks) \/ gather_raises(chunk_tasks)
    /\ pc = "routing" =>
          \/ \E r \in DOMAIN rtask : rtask[r] = "sleeping"
          \/ gather_returns(rtask) \/ gather_raises(rtask)
    /\ pc \in {"finished", "done"} =>
          \/ result = "written" /\ output_file # <<>> /\ "output_ok" \in log
          \/ result = "no_routes" /\ output_file = <<>> /\ "no_routes" \in log

C17_Witness ==
    /\ pc = "done"
    /\ "geo_completed" \in log
    /\ \E r \in DOMAIN rtask : rtask[r] = "failed"
    /\ \E r \in DOMAIN rtask : rtask[r] = "ok"
    /\ "route_error" \in log
    /\ result = "no_routes"

\* C18: the phases run strictly in order: when a routing task exists or a
\* routing call has been made, every geocoding task has ended and the
\* merge-back of the geocoding results is complete; when an output record
\* has been assembled, the route resolver has returned and the routing task
\* of every row has ended with its result.
C18_PhasesInOrder ==
    /\ (rtask # <<>> \/ route_order # <<>>) =>
          /\ pc \in {"routing", "output", "finished", "done", "exited"}
          /\ "geo_completed" \in log
          /\ \A i \in DOMAIN gtask : gtask[i] = "ok"
          /\ \A i \in DOMAIN locations : Resolved(locations[i])
    /\ (trips # <<>> \/ result # "none") =>
          /\ pc \in {"finished", "done", "exited"}
          /\ trips # <<>> =>
                /\ Len(rtask) = Len(source_data)
                /\ \A r \in DOMAIN rtask : rtask[r] = "ok"

C18_Witness ==
    /\ pc = "finished"
    /\ Len(route_order) >= 2
    /\ Len(trips) >= 2
    /\ result = "written"

\* C19: each phase awaits its tasks jointly: once the batched resolver has
\* returned no geocoding task is still pending, and once the route resolver
\* has returned no routing task is still pending, also in runs where a call
\* of the phase has failed.
C19_NoTaskPendingAfterPhase ==
    /\ pc \in {"routes", "routing", "output", "finished"} =>
          \A i \in DOMAIN gtask : gtask[i] # "sleeping"
    /\ pc \in {"output", "finished"} =>
          \A r \in DOMAIN rtask : rtask[r] # "sleeping"

\* in the runs where no call of the phase fails, no task of the phase is
\* pending once the phase has returned
NoTaskPendingAfterPhaseWithoutFailure ==
    /\ (pc \in {"routes", "routing", "output", "finished"} /\ "geo_error" \notin log) =>
          \A i \in DOMAIN gtask : gtask[i] # "sleeping"
    /\ (pc \in {"output", "finished"} /\ "route_error" \notin log) =>
          \A r \in DOMAIN rtask : rtask[r] # "sleeping"

\* a task left pending by a phase never makes a call: the calls made do not
\* grow once the phase has returned
PendingTaskMakesNoCall ==
    [][/\ pc \in {"routes", "routing", "output", "finished"} => geo_order' = geo_order
       /\ pc \in {"output", "finished"} => route_order' = route_order]_vars

-----------------------------------------------------------------------------
(* The pipeline with each outbound call in two steps: the call begins, the
   call ends. get_coords and get_route_attributes are plain functions called
   without await and http.client blocks, so the thread of the event loop
   stays inside a call from its beginning to its end. *)

\* the thread of the event loop is not inside an outbound call
loop_idle ==
    /\ \A i \in DOMAIN gtask : gtask[i] # "calling"
    /\ \A r \in DOMAIN rtask : rtask[r] # "calling"

\* a resolve_location task wakes from its sleep and enters get_coords
BeginGeocodeCall(i) ==
    /\ MainSuspended
    /\ loop_idle
    /\ i \in DOMAIN gtask
    /\ gtask[i] = "sleeping"
    /\ gtask' = [gtask EXCEPT ![i] = "calling"]
    /\ UNCHANGED <<steps, timers, now, arg, ret, geo_order,
                   input_file, geoFail, routeFail, pc, source_data, locations,
                   location_pool, rtask, route_order, routes, trips,
                   output_file, log, result>>

\* get_coords returns to resolve_location
EndGeocodeCall(i) ==
    /\ i \in DOMAIN gtask
    /\ gtask[i] = "calling"
    /\ gtask' = [gtask EXCEPT ![i] = resolve_location(locations[i].name)]
    /\ geo_order' = Append(geo_order, i)
    /\ UNCHANGED <<steps, timers, now, arg, ret,
                   input_file, geoFail, routeFail, pc, source_data, locations,
                   location_pool, rtask, route_order, routes, trips,
                   output_file, log, result>>

\* an exec_delayed task wakes from its sleep and enters get_route_attributes
BeginRouteCall(r) ==
    /\ MainSuspended
    /\ loop_idle
    /\ r \in DOMAIN rtask
    /\ rtask[r] = "sleeping"
    /\ rtask' = [rtask EXCEPT ![r] = "calling"]
    /\ UNCHANGED <<steps, timers, now, arg, ret, route_order,
                   input_file, geoFail, routeFail, pc, source_data, locations,
                   gtask, geo_order, location_pool, routes, trips, output_file,
                   log, result>>

\* get_route_attributes returns to exec_delayed
EndRouteCall(r) ==
    /\ r \in DOMAIN rtask
    /\ rtask[r] = "calling"
    /\ rtask' = [rtask EXCEPT ![r] = exec_delayed(locations, source_data[r])]
    /\ route_order' = Append(route_order, r)
    /\ UNCHANGED <<steps, timers, now, arg, ret,
                   input_file, geoFail, routeFail, pc, source_data, locations,
                   gtask, geo_order, location_pool, routes, trips, output_file,
                   log, result>>

\* the coroutine awaiting a gather resumes with the exception of a child only
\* when the thread is not inside a call
GeocodeRaiseIdle == loop_idle /\ GeocodeRaise

RoutesRaiseIdle == loop_idle /\ RoutesRaise

NextBlocking ==
    \/ Load
    \/ StartGeocode
    \/ \E i \in 1..(2 * MaxRows) : BeginGeocodeCall(i)
    \/ \E i \in 1..(2 * MaxRows) : EndGeocodeCall(i)
    \/ GeocodeReturn
    \/ GeocodeRaiseIdle
    \/ StartRoutes
    \/ \E r \in 1..MaxRows : BeginRouteCall(r)
    \/ \E r \in 1..MaxRows : EndRouteCall(r)
    \/ RoutesReturn
    \/ RoutesRaiseIdle
    \/ GenerateOutput
    \/ Shutdown

SpecBlocking == Init /\ [][NextBlocking]_vars

\* C20: a resolution task is suspended during its outbound call, so while the
\* call of one task is in progress another task that has slept can run and
\* begin its own call.
C20_CallsCanOverlap ==
    /\ \A i, j \in DOMAIN gtask :
          (gtask[i] = "calling" /\ gtask[j] = "sleeping") =>
              ENABLED BeginGeocodeCall(j)
    /\ \A r, q \in DOMAIN rtask :
          (rtask[r] = "calling" /\ rtask[q] = "sleeping") =>
              ENABLED BeginRouteCall(q)

\* at most one outbound call is in progress at any time
OneCallAtATime ==
    Cardinality({i \in DOMAIN gtask : gtask[i] = "calling"})
        + Cardinality({r \in DOMAIN rtask : rtask[r] = "calling"}) <= 1

-----------------------------------------------------------------------------
(* Chunks, the pool and its writer *)

\* C21: all chunk tasks are launched together: when the outer gather is
\* awaited there is one pending geocoding task per pool entry, of every
\* chunk, and while the gather is awaited every pending task can make its
\* call whatever the state of the tasks of the other chunks; so the number of
\* tasks pending at once is bounded by the size of the pool (chunk size x
\* chunk count), not by the chunk size.
C21_ChunksLaunchedTogether ==
    pc = "geocoding" =>
        /\ Len(gtask) = Len(locations)
        /\ geo_order = <<>> => \A i \in DOMAIN gtask : gtask[i] = "sleeping"
        /\ \A i \in DOMAIN gtask :
              gtask[i] = "sleeping" => ENABLED ResolveLocation(i)

C21_Witness ==
    /\ pc = "geocoding"
    /\ Len(chunked_locations) = 2
    /\ Len(gtask) = 4
    /\ gtask[1] = "sleeping"
    /\ gtask[2] = "sleeping"
    /\ gtask[3] = "ok"
    /\ gtask[4] = "sleeping"

\* C22: the pool has a single writer: once built, the pool is written only by
\* the step in which __geocode_coords resumes from its gather with every
\* result, at which point no geocoding task is pending; no task writes an
\* entry, so no two tasks write the same entry.
C22_SingleWriter ==
    [][(pc # "start" /\ locations' # locations) =>
          /\ pc = "geocoding" /\ pc' = "routes"
          /\ "geo_completed" \in log'
          /\ gtask' = gtask
          /\ \A i \in DOMAIN gtask : gtask[i] = "ok"]_vars

C22_Witness ==
    /\ pc = "routes"
    /\ Len(locations) = 4
    /\ \A i \in DOMAIN locations : Resolved(locations[i])
    /\ geo_order[1] = 4

-----------------------------------------------------------------------------
(* Utils.format_time, called on its own *)

\* raw seconds counts: every hour up to MaxHours, with minutes and seconds at
\* the ends and inside of their ranges
SecondsCounts ==
    {h * 3600 + m * 60 + s : h \in 0..MaxHours, m \in {0, 1, 59}, s \in {0, 1, 59}}

InitFormatTime ==
    /\ pc = "format_time"
    /\ arg \in SecondsCounts
    /\ ret = <<>>
    /\ input_file = <<>>
    /\ geoFail = {}
    /\ routeFail = {}
    /\ source_data = <<>>
    /\ locations = <<>>
    /\ gtask = <<>>
    /\ geo_order = <<>>
    /\ location_pool = <<>>
    /\ rtask = <<>>
    /\ route_order = <<>>
    /\ routes = <<>>
    /\ trips = <<>>
    /\ output_file = <<>>
    /\ log = {}
    /\ result = "none"
    /\ steps = <<>>
    /\ timers = <<>>
    /\ now = 0

\* "time": Utils.format_time(route["time"])
FormatTime ==
    /\ pc = "format_time"
    /\ ret = <<>>
    /\ ret' = <<format_time(arg)>>
    /\ UNCHANGED <<steps, arg, pc, timers, now, input_file, geoFail, routeFail,
                   source_data, locations, gtask, geo_order, location_pool,
                   rtask, route_order, routes, trips, output_file, log, result>>

NextFormatTime == FormatTime

SpecFormatTime == InitFormatTime /\ [][NextFormatTime]_vars

\* C23: the duration label is the HH:MM:SS rendering of the raw seconds
\* count: for every non-negative whole number of seconds s the fields of the
\* label satisfy HH*3600 + MM*60 + SS = s, with MM and SS in 0..59.
C23_LabelRendersSeconds ==
    (pc = "format_time" /\ ret # <<>>) =>
        /\ ret[1][1] * 3600 + ret[1][2] * 60 + ret[1][3] = arg
        /\ ret[1][2] \in 0..59
        /\ ret[1][3] \in 0..59

\* below one day the label renders the seconds count
LabelRendersSecondsBelowOneDay ==
    (pc = "format_time" /\ ret # <<>> /\ arg < 86400) =>
        /\ ret[1][1] * 3600 + ret[1][2] * 60 + ret[1][3] = arg
        /\ ret[1][2] \in 0..59
        /\ ret[1][3] \in 0..59

\* C24: after the pool is built, no step of the batched resolver, the route
\* resolver or the output assembler adds, removes or reorders pool entries
\* or changes the name of an entry; an entry that carries its coordinates and
\* address is not written again; and the rows of source_data are not
\* modified after the normalization at load time.
C24_FrameOfPoolAndRows ==
    [][pc # "start" =>
          /\ source_data' = source_data
          /\ Len(locations') = Len(locations)
          /\ \A i \in DOMAIN locations :
                /\ locations'[i].name = locations[i].name
                /\ Resolved(locations[i]) => locations'[i] = locations[i]]_vars

C24_Witness ==
    /\ pc = "done"
    /\ result = "written"
    /\ Len(source_data) = 2
    /\ Len(locations) >= 3
    /\ \A i \in DOMAIN locations : Resolved(locations[i])

-----------------------------------------------------------------------------
(* Chunking, called on its own: itertools.batched as used by trip_resolver.py
   and get_chunks of chunked_async.py *)

\* range(start, stop, step) for a positive step
range(start, stop, step) ==
    [k \in 1..((stop - start + step - 1) \div step) |-> start + (k - 1) * step]

\* items[a:b] for 0 <= a <= b: the slice is cut at the end of the list
slice(items, a, b) ==
    SubSeq(items, a + 1, IF b < Len(items) THEN b ELSE Len(items))

\* get_chunks: [items[i:i + step] for i in range(0, len(items), step)]
get_chunks(items, step) ==
    LET starts == range(0, Len(items), step)
    IN  [k \in 1..Len(starts) |-> slice(items, starts[k], starts[k] + step)]

ChunkVariants == {"batched", "get_chunks"}

ItemLists == UNION {[1..n -> 0..1] : n \in 0..MaxItems}

InitChunks ==
    /\ pc = "chunks"
    /\ arg \in [variant : ChunkVariants, items : ItemLists, step : 1..MaxStep]
    /\ ret = <<>>
    /\ input_file = <<>>
    /\ geoFail = {}
    /\ routeFail = {}
    /\ source_data = <<>>
    /\ locations = <<>>
    /\ gtask = <<>>
    /\ geo_order = <<>>
    /\ location_pool = <<>>
    /\ rtask = <<>>
    /\ route_order = <<>>
    /\ routes = <<>>
    /\ trips = <<>>
    /\ output_file = <<>>
    /\ log = {}
    /\ result = "none"
    /\ steps = <<>>
    /\ timers = <<>>
    /\ now = 0

\* list(batched(self.data.locations, global_http_chunks)) and
\* list(get_chunks(items, chunk_count))
Chunk ==
    /\ pc = "chunks"
    /\ ret = <<>>
    /\ ret' = <<IF arg.variant = "batched"
                THEN batched(arg.items, arg.step)
                ELSE get_chunks(arg.items, arg.step)>>
    /\ UNCHANGED <<steps, arg, pc, timers, now, input_file, geoFail, routeFail,
                   source_data, locations, gtask, geo_order, location_pool,
                   rtask, route_order, routes, trips, output_file, log, result>>

NextChunks == Chunk

SpecChunks == InitChunks /\ [][NextChunks]_vars

\* C25: chunking partitions its input: for every list and every positive
\* chunk size the chunks concatenated in order equal the list, every chunk
\* but the last has exactly chunk-size items, the last chunk is non-empty
\* and no larger than the chunk size, and an empty list gives zero chunks.
C25_ChunkingPartitions ==
    (pc = "chunks" /\ ret # <<>>) =>
        LET chunks == ret[1]
        IN  /\ flatten(chunks) = arg.items
            /\ \A k \in 1..(Len(chunks) - 1) : Len(chunks[k]) = arg.step
            /\ Len(chunks) > 0 =>
                  /\ Len(chunks[Len(chunks)]) >= 1
                  /\ Len(chunks[Len(chunks)]) <= arg.step
            /\ arg.items = <<>> => chunks = <<>>

C25_Witness ==
    /\ pc = "chunks"
    /\ ret # <<>>
    /\ arg.variant = "batched"
    /\ Len(arg.items) = 5
    /\ arg.step = 2
    /\ Len(ret[1]) = 3
    /\ Len(ret[1][3]) = 1

-----------------------------------------------------------------------------
(* I/O failures and termination *)

\* C26: when the input file cannot be read the run ends at load time: no
\* geocoding or routing task is created, no call is made and nothing is
\* written; when the output file cannot be written the run ends as well,
\* without an output; after either exit no step of the run follows.
C26_IOFailureTerminates ==
    /\ "read_error" \in log =>
          /\ pc = "exited" /\ result = "io_exit"
          /\ source_data = <<>> /\ locations = <<>>
          /\ gtask = <<>> /\ geo_order = <<>>
          /\ rtask = <<>> /\ route_order = <<>>
          /\ trips = <<>> /\ output_file = <<>>
          /\ "output_ok" \notin log
    /\ "write_error" \in log =>
          /\ pc = "exited" /\ result = "io_exit"
          /\ output_file = <<>>
          /\ "output_ok" \notin log
    /\ pc = "exited" => ~ENABLED Next

C26_Witness ==
    /\ pc = "exited"
    /\ "read_error" \in log
    /\ result = "io_exit"
    /\ geo_order = <<>>
    /\ route_order = <<>>

\* a run that has resolved its routes and fails to write its output
WriteFailureReached ==
    /\ pc = "exited"
    /\ "write_error" \in log
    /\ Len(routes) = 2
    /\ output_file = <<>>

-----------------------------------------------------------------------------
(* simple_background_tasks.py: the Timer class *)

\* the intervals of the entries of all_tasks
all_tasks == <<[interval |-> 4], [interval |-> 3]>>

\* await asyncio.sleep(2) in main
main_sleep == 2

\* the attributes a Timer object has
TimerAttributes ==
    {"_event_loop", "_interval_sec", "_callback", "_args", "_kwargs", "_task",
     "_job", "cancel"}

\* Timer.__init__: the task of _job is created and sleeps its first interval.
\* state is where _job is; must_cancel is the cancellation requested of the
\* task and not yet delivered; the other fields record what happened (raised
\* counts the exceptions of the callback, errors the ones logged by _job)
Timer(interval_sec) ==
    [interval |-> interval_sec,
     state |-> "sleeping",
     wake_at |-> now + interval_sec,
     slept_from |-> now,
     created_at |-> now,
     started |-> 0,
     started_at |-> 0,
     raised |-> 0,
     errors |-> 0,
     must_cancel |-> FALSE,
     cancel_called |-> FALSE,
     cancelled_in |-> "none"]

\* the event loop is running: inside run_until_complete or run_forever
loop_running == pc \in {"tm_main", "tm_forever"}

PipelineUnchanged ==
    UNCHANGED <<steps, arg, ret, input_file, geoFail, routeFail, source_data,
                locations, gtask, geo_order, location_pool, rtask,
                route_order, routes, trips, output_file, result>>

\* main: one Timer per entry of all_tasks, then await asyncio.sleep(2)
Main ==
    /\ pc = "tm_start"
    /\ timers' = timers \o [k \in 1..Len(all_tasks) |-> Timer(all_tasks[k].interval)]
    /\ pc' = "tm_main"
    /\ UNCHANGED <<now, log>>
    /\ PipelineUnchanged

\* main returns after its sleep; run_until_complete returns and run_forever
\* is entered
MainReturns ==
    /\ pc = "tm_main"
    /\ now >= main_sleep
    /\ pc' = "tm_forever"
    /\ log' = log \cup {"initialized"}
    /\ UNCHANGED <<now, timers>>
    /\ PipelineUnchanged

\* time passes
Tick ==
    /\ loop_running
    /\ now < MaxTime
    /\ now' = now + 1
    /\ UNCHANGED <<pc, timers, log>>
    /\ PipelineUnchanged

\* _job: asyncio.sleep(interval) has elapsed and the callback is called
TimerWakes(i) ==
    /\ loop_running
    /\ i \in DOMAIN timers
    /\ timers[i].state = "sleeping"
    /\ ~timers[i].must_cancel
    /\ timers[i].wake_at <= now
    /\ timers' = [timers EXCEPT ![i].state = "callback",
                                ![i].started = @ + 1,
                                ![i].started_at = now]
    /\ UNCHANGED <<pc, now, log>>
    /\ PipelineUnchanged

\* the callback returns and _job sleeps again
CallbackReturns(i) ==
    /\ loop_running
    /\ i \in DOMAIN timers
    /\ timers[i].state = "callback"
    /\ ~timers[i].must_cancel
    /\ timers' = [timers EXCEPT ![i].state = "sleeping",
                                ![i].wake_at = now + timers[i].interval,
                                ![i].slept_from = now]
    /\ UNCHANGED <<pc, now, log>>
    /\ PipelineUnchanged

\* the callback raises an Exception: "except Exception" logs it and _job
\* sleeps again; an exception that is not caught ends the task
CallbackRaises(i) ==
    /\ loop_running
    /\ i \in DOMAIN timers
    /\ timers[i].state = "callback"
    /\ ~timers[i].must_cancel
    /\ IF except_Exception_catches("Exception")
       THEN /\ timers' = [timers EXCEPT ![i].state = "sleeping",
                                        ![i].raised = @ + 1,
                                        ![i].errors = @ + 1,
                                        ![i].wake_at = now + timers[i].interval,
                                        ![i].slept_from = now]
            /\ log' = log \cup {"task_error"}
       ELSE /\ timers' = [timers EXCEPT ![i].state = "failed",
                                        ![i].raised = @ + 1]
            /\ UNCHANGED log
    /\ UNCHANGED <<pc, now>>
    /\ PipelineUnchanged

\* Timer.cancel: self._task.cancel() requests the cancellation of a task that
\* has not ended
cancel(timer) ==
    IF timer.state \in {"sleeping", "callback"}
    THEN [timer EXCEPT !.must_cancel = TRUE,
                       !.cancel_called = TRUE,
                       !.cancelled_in = timer.state]
    ELSE timer

\* some code holding the Timer calls cancel() while the loop is running
TimerCancel(i) ==
    /\ loop_running
    /\ i \in DOMAIN timers
    /\ timers[i].state \in {"sleeping", "callback"}
    /\ ~timers[i].cancel_called
    /\ timers' = [timers EXCEPT ![i] = cancel(@)]
    /\ UNCHANGED <<pc, now, log>>
    /\ PipelineUnchanged

\* the next step of a task asked to cancel: CancelledError is raised at the
\* await where _job is suspended; at the sleep it ends the task, inside the
\* callback it passes the "except Exception" clause unless that catches it
DeliverCancel(i) ==
    /\ loop_running
    /\ i \in DOMAIN timers
    /\ timers[i].must_cancel
    /\ IF timers[i].state = "callback" /\ except_Exception_catches("CancelledError")
       THEN /\ timers' = [timers EXCEPT ![i].state = "sleeping",
                                        ![i].must_cancel = FALSE,
                                        ![i].errors = @ + 1,
                                        ![i].wake_at = now + timers[i].interval,
                                        ![i].slept_from = now]
            /\ log' = log \cup {"task_error"}
       ELSE /\ timers' = [timers EXCEPT ![i].state = "cancelled",
                                        ![i].must_cancel = FALSE]
            /\ UNCHANGED log
    /\ UNCHANGED <<pc, now>>
    /\ PipelineUnchanged

InitTimers ==
    /\ pc = "tm_start"
    /\ steps = <<>>
    /\ timers = <<>>
    /\ now = 0
    /\ log = {}
    /\ arg = <<>>
    /\ ret = <<>>
    /\ input_file = <<>>
    /\ geoFail = {}
    /\ routeFail = {}
    /\ source_data = <<>>
    /\ locations = <<>>
    /\ gtask = <<>>
    /\ geo_order = <<>>
    /\ location_pool = <<>>
    /\ rtask = <<>>
    /\ route_order = <<>>
    /\ routes = <<>>
    /\ trips = <<>>
    /\ output_file = <<>>
    /\ result = "none"

\* the Timer class in a running loop, with callbacks that return or raise and
\* with cancel() called at any time
NextTimer ==
    \/ Main
    \/ MainReturns
    \/ Tick
    \/ \E i \in 1..Len(all_tasks) : TimerWakes(i)
    \/ \E i \in 1..Len(all_tasks) : CallbackReturns(i)
    \/ \E i \in 1..Len(all_tasks) : CallbackRaises(i)
    \/ \E i \in 1..Len(all_tasks) : TimerCancel(i)
    \/ \E i \in 1..Len(all_tasks) : DeliverCancel(i)

SpecTimer == InitTimers /\ [][NextTimer]_vars

-----------------------------------------------------------------------------
(* simple_background_tasks.py: the __main__ block *)

\* Ctrl-C: KeyboardInterrupt leaves run_until_complete or run_forever; a task
\* that was running its callback ends with the KeyboardInterrupt
KeyboardInterrupt ==
    /\ pc \in {"tm_start", "tm_main", "tm_forever"}
    /\ timers' = [i \in DOMAIN timers |->
                    IF timers[i].state = "callback"
                    THEN [timers[i] EXCEPT !.state = "interrupted"]
                    ELSE timers[i]]
    /\ log' = log \cup {"sigint"}
    /\ pc' = "tm_finally"
    /\ UNCHANGED now
    /\ PipelineUnchanged

\* the finally block: for each timer, timer.name is logged and then
\* timer.cancel() is called; reading an attribute the Timer does not have
\* raises AttributeError out of the block
Finally ==
    /\ pc = "tm_finally"
    /\ IF timers # <<>> /\ "name" \notin TimerAttributes
       THEN /\ log' = log \cup {"AttributeError"}
            /\ pc' = "tm_crashed"
            /\ UNCHANGED timers
       ELSE /\ timers' = [i \in DOMAIN timers |-> cancel(timers[i])]
            /\ log' = log \cup {"cancelling"}
            /\ pc' = "tm_exit"
    /\ UNCHANGED now
    /\ PipelineUnchanged

NextScript ==
    \/ Main
    \/ MainReturns
    \/ Tick
    \/ \E i \in 1..Len(all_tasks) : TimerWakes(i)
    \/ \E i \in 1..Len(all_tasks) : CallbackReturns(i)
    \/ KeyboardInterrupt
    \/ Finally

SpecScript == InitTimers /\ [][NextScript]_vars

\* C27: on keyboard interrupt the shutdown path cancels every Timer that was
\* created: once the finally block has run, cancel() has been called on
\* every timer whose task has not ended.
C27_ShutdownCancelsEveryTimer ==
    pc \in {"tm_exit", "tm_crashed"} =>
        \A i \in DOMAIN timers :
            timers[i].state \in {"sleeping", "callback"} => timers[i].cancel_called

\* the Timer class under a loop that lets time pass and runs a task whose
\* sleep has elapsed
SpecTimerFair ==
    /\ SpecTimer
    /\ WF_vars(Tick)
    /\ \A i \in 1..Len(all_tasks) : WF_vars(TimerWakes(i))

\* C28: after Timer.cancel() has been called the callback of the timer is
\* never started again, whether the timer was sleeping or inside its
\* callback when cancel() was called.
C28_NoStartAfterCancel ==
    [][\A i \in DOMAIN timers :
          timers[i].cancel_called => timers'[i].started = timers[i].started]_vars

C28_Witness ==
    /\ Len(timers) = 2
    /\ timers[1].state = "cancelled"
    /\ timers[1].cancelled_in = "sleeping"
    /\ timers[2].state = "cancelled"
    /\ timers[2].cancelled_in = "callback"
    /\ timers[2].started = 1
    /\ now > timers[2].started_at + timers[2].interval

\* what has held of a timer so far: an exception of its callback was caught
\* and logged and did not end the task, and every invocation came after a
\* full interval of sleep
TimerRecurringSafe(i) ==
    /\ (timers[i].raised >= 1 /\ ~timers[i].cancel_called) =>
          /\ timers[i].state \in {"sleeping", "callback"}
          /\ timers[i].errors = timers[i].raised
          /\ "task_error" \in log
    /\ timers[i].state = "callback" =>
          timers[i].started_at >= timers[i].slept_from + timers[i].interval
    /\ timers[i].started >= 1 =>
          timers[i].started_at >= timers[i].created_at + timers[i].interval

\* the callback of the timer has raised, the timer sleeps and is not
\* cancelled, and its next interval ends within the time followed
SleepsAfterRaise(i) ==
    /\ i \in DOMAIN timers
    /\ timers[i].raised >= 1
    /\ timers[i].state = "sleeping"
    /\ ~timers[i].cancel_called
    /\ timers[i].wake_at <= MaxTime

InvokedAgainOrCancelled(i) ==
    /\ i \in DOMAIN timers
    /\ timers[i].state = "callback" \/ timers[i].cancel_called

\* C29: a Timer keeps recurring after its callback raises: the exception is
\* caught and logged, the task goes on, and unless the timer is cancelled
\* the callback is invoked again after the next interval; every invocation
\* is preceded by a full interval of sleep, so the callback is never invoked
\* before one interval has elapsed since the creation of the timer.
C29_TimerKeepsRecurring ==
    /\ [](\A i \in DOMAIN timers : TimerRecurringSafe(i))
    /\ \A i \in 1..Len(all_tasks) :
          SleepsAfterRaise(i) ~> InvokedAgainOrCancelled(i)

C29_Witness ==
    /\ Len(timers) = 2
    /\ timers[2].raised = 1
    /\ timers[2].started = 2
    /\ timers[2].state = "callback"
    /\ ~timers[2].cancel_called
    /\ timers[2].started_at >= 2 * timers[2].interval

----------------------------------------------------------------------------
(* Termination of main *)

\* asyncio.run(main()) with an event loop that runs a step whenever one is
\* ready: a task whose sleep has elapsed makes its call, every call returns
\* or fails, and a coroutine whose await has a result resumes
\* The input files followed to their end are those whose rows all carry the
\* same trip code: the code of a row plays no part in what main awaits.
InitFair ==
    /\ Init
    /\ \A i \in DOMAIN input_file : input_file[i].trip_code = <<"T", "1">>

SpecFair == InitFair /\ [][Next]_vars /\ WF_vars(Next)

\* the process has ended: asyncio.run has returned, or sys.exit() was called
Terminated == pc \in {"done", "exited"}

TerminalReports == {"output_ok", "no_routes", "read_error", "write_error"}

\* exactly one of: output written, "no route information resolved" reported,
\* fatal I/O exit
ExactlyOneTerminalCondition ==
    /\ Cardinality(log \cap TerminalReports) = 1
    /\ \/ /\ result = "written"
          /\ pc = "done"
          /\ "output_ok" \in log
          /\ output_file # <<>>
       \/ /\ result = "no_routes"
          /\ pc = "done"
          /\ "no_routes" \in log
          /\ output_file = <<>>
       \/ /\ result = "io_exit"
          /\ pc = "exited"
          /\ log \cap {"read_error", "write_error"} # {}
          /\ output_file = <<>>

\* main awaits a gather of which one call has failed while sibling tasks are
\* still pending
FailedWhileSiblingsPending ==
    \/ /\ pc = "geocoding"
       /\ \E i \in DOMAIN gtask : gtask[i] = "failed"
       /\ \E i \in DOMAIN gtask : gtask[i] = "sleeping"
    \/ /\ pc = "routing"
       /\ \E r \in DOMAIN rtask : rtask[r] = "failed"
       /\ \E r \in DOMAIN rtask : rtask[r] = "sleeping"

\* C30: every run of main eventually terminates, in exactly one terminal
\* condition (output written, "no route information resolved" reported, or
\* fatal I/O exit), and never blocks forever awaiting a task, also when a
\* call fails while sibling tasks are still pending.
C30_MainTerminates ==
    /\ <>Terminated
    /\ [](Terminated => ExactlyOneTerminalCondition)
    /\ [](Terminated => ~ENABLED Next)
    /\ FailedWhileSiblingsPending ~> Terminated

C30_Witness ==
    /\ pc = "done"
    /\ result = "no_routes"
    /\ \E i \in DOMAIN gtask : gtask[i] = "failed"
    /\ \E i \in DOMAIN gtask : gtask[i] = "cancelled"

----------------------------------------------------------------------------
(* All-or-nothing geocoding, records and their routes, repeated calls *)

\* __geocode_coords has returned
GeocodeReturned == "geo_completed" \in log \/ "geo_error" \in log

\* C31: the geocoding phase is all-or-nothing: no state has coordinates on
\* some pool entries only, and once __geocode_coords has returned either
\* every pool entry carries coordinates and the returned list has one result
\* per pool entry, or no pool entry carries coordinates and the returned list
\* is empty.
C31_GeocodingAllOrNothing ==
    /\ \/ \A i \in DOMAIN locations : Resolved(locations[i])
       \/ \A i \in DOMAIN locations : ~Resolved(locations[i])
    /\ GeocodeReturned =>
          \/ /\ \A i \in DOMAIN locations : Resolved(locations[i])
             /\ Len(location_pool) = Len(locations)
          \/ /\ \A i \in DOMAIN locations : ~Resolved(locations[i])
             /\ location_pool = <<>>

C31_Witness ==
    /\ pc = "routes"
    /\ \E i \in DOMAIN gtask : gtask[i] = "ok"
    /\ \E i \in DOMAIN gtask : gtask[i] = "failed"
    /\ \A i \in DOMAIN locations : ~Resolved(locations[i])
    /\ location_pool = <<>>

\* generate_output on a handler that holds the RouteResult of every row, for
\* input files in which trip codes may differ in case only
CasedCodes == RawCodes \cup { <<"t","1">> }

CasedTables ==
    UNION {[1..n -> [trip_code : CasedCodes, source : RawNames,
                     destination : RawNames]] : n \in 0..MaxRows}

InitRecords ==
    /\ input_file \in CasedTables
    /\ geoFail = {}
    /\ routeFail = {}
    /\ pc = "output"
    /\ source_data = load(<<>>, input_file)
    /\ locations = LET pool == load_locations(source_data, <<>>)
                   IN  [i \in 1..Len(pool) |-> get_coords(pool[i].name)]
    /\ gtask = [i \in 1..Len(locations) |-> "ok"]
    /\ geo_order = [i \in 1..Len(locations) |-> i]
    /\ location_pool = locations
    /\ rtask = [r \in 1..Len(source_data) |-> "ok"]
    /\ route_order = [r \in 1..Len(source_data) |-> r]
    /\ routes = routes_of(source_data, locations, 1..Len(source_data))
    /\ trips = <<>>
    /\ output_file = <<>>
    /\ log = {}
    /\ result = "none"
    /\ steps = <<>>
    /\ timers = <<>>
    /\ now = 0
    /\ arg = <<>>
    /\ ret = <<>>

NextRecords ==
    \/ GenerateOutput
    \/ Shutdown

SpecRecords == InitRecords /\ [][NextRecords]_vars

\* C32: whenever the output is written it has exactly one record per input
\* row, and every record carries the length, the duration and the source and
\* destination coordinates of the RouteResult computed for its own row, also
\* when two rows have trip codes that are equal after lower-casing.
C32_RecordCarriesOwnRoute ==
    result = "written" =>
        /\ Len(output_file) = Len(source_data)
        /\ \A r \in DOMAIN output_file :
              output_file[r] =
                  trip_info(source_data[r],
                            route_response(locations, source_data[r]))

\* the same, for the files whose trip codes differ after lower-casing
RecordCarriesOwnRouteOfDistinctCode ==
    (/\ result = "written"
     /\ \A r, q \in DOMAIN source_data :
           r # q => source_data[r].trip_code # source_data[q].trip_code) =>
        /\ Len(output_file) = Len(source_data)
        /\ \A r \in DOMAIN output_file :
              output_file[r] =
                  trip_info(source_data[r],
                            route_response(locations, source_data[r]))

\* generate_output called again on the same handler once it has returned;
\* ret keeps what each earlier call has emitted
CallAgain ==
    /\ pc = "finished"
    /\ result \in {"written", "no_routes"}
    /\ Len(ret) < MaxCalls - 1
    /\ ret' = Append(ret, output_file)
    /\ pc' = "output"
    /\ UNCHANGED <<steps, timers, now, arg,
                   input_file, geoFail, routeFail, source_data, locations,
                   gtask, geo_order, location_pool, rtask, route_order, routes,
                   trips, output_file, log, result>>

NextRepeat ==
    \/ GenerateOutput
    \/ CallAgain
    \/ Shutdown

SpecRepeat == InitOutput /\ [][NextRepeat]_vars

\* C33: generate_output is repeatable: a second call on the same handler
\* with unchanged routes emits the same records as the first call, no record
\* twice.
C33_OutputRepeatable ==
    (pc \in {"finished", "done"} /\ ret # <<>> /\ result = "written") =>
        output_file = ret[Len(ret)]

\* what a second call emits: the records of the first call, and then the
\* same records again
SecondCallEmitsTwice ==
    (pc \in {"finished", "done"} /\ Len(ret) = 1 /\ result = "written") =>
        output_file = ret[1] \o ret[1]

----------------------------------------------------------------------------
(* Several DataHandler instances in one process *)

\* DataHandler(input_path, output_path) is constructed once more, on another
\* input file; arg keeps the files of the instances constructed after the
\* first
NewHandler ==
    /\ pc = "boot"
    /\ Len(arg) < MaxHandlers - 1
    /\ input_file' \in Tables
    /\ arg' = Append(arg, input_file')
    /\ pc' = "start"
    /\ UNCHANGED <<steps, timers, now, ret,
                   geoFail, routeFail, source_data, locations, gtask,
                   geo_order, location_pool, rtask, route_order, routes, trips,
                   output_file, log, result>>

NextHandlers ==
    \/ Load
    \/ NewHandler

SpecHandlers == Init /\ [][NextHandlers]_vars

\* C34: DataHandler instances are isolated: the rows and the pool of a second
\* instance are built from its own input file only and hold none of the rows
\* or Locations loaded by an earlier instance.
C34_HandlersIsolated ==
    (pc = "boot" /\ arg # <<>>) =>
        /\ source_data = load(<<>>, arg[Len(arg)])
        /\ locations = load_locations(load(<<>>, arg[Len(arg)]), <<>>)

----------------------------------------------------------------------------
(* pipeline_steps.py *)

\* the example subclasses of Step
StepSubclasses == {"StringToUpper", "StringSplitter", "WordCounter"}

\* the objects handed to add_step: an instance of each subclass of Step, an
\* object of a class that defines process but does not inherit from Step
\* ("Processor"), and an object with no process attribute ("object")
Objects == [class : StepSubclasses \cup {"Processor", "object"}]

\* isinstance(obj, Step)
isinstance_Step(obj) == obj.class \in StepSubclasses

\* hasattr(obj, "process")
has_process(obj) == obj.class \in StepSubclasses \cup {"Processor"}

str(value) == [type |-> "str", value |-> value]
list(value) == [type |-> "list", value |-> value]
int(value) == [type |-> "int", value |-> value]

\* str.upper()
upper(s) == [i \in 1..Len(s) |-> upper_char(s[i])]

RECURSIVE split_from(_, _, _)
\* str.split(): the words between runs of whitespace; word is the word being
\* read at position i
split_from(s, i, word) ==
    IF i > Len(s)
    THEN IF word = <<>> THEN <<>> ELSE <<word>>
    ELSE IF s[i] \in Whitespace
    THEN IF word = <<>>
         THEN split_from(s, i + 1, <<>>)
         ELSE <<word>> \o split_from(s, i + 1, <<>>)
    ELSE split_from(s, i + 1, Append(word, s[i]))

split(s) == split_from(s, 1, <<>>)

\* step.process(input_data) for the classes above: upper and split exist on
\* str only, len on str and list only; Processor.process returns its input
process(step, input_data) ==
    CASE step.class = "StringToUpper" ->
            IF input_data.type = "str"
            THEN Returned(str(upper(input_data.value)))
            ELSE Raised("AttributeError")
      [] step.class = "StringSplitter" ->
            IF input_data.type = "str"
            THEN Returned(list(split(input_data.value)))
            ELSE Raised("AttributeError")
      [] step.class = "WordCounter" ->
            IF input_data.type \in {"str", "list"}
            THEN Returned(int(Len(input_data.value)))
            ELSE Raised("TypeError")
      [] step.class = "Processor" -> Returned(input_data)

\* Pipeline.add_step: the list after the call, and how the call ended
add_step(self_steps, step) ==
    IF self_steps # <<>>
    THEN LET last_step == self_steps[Len(self_steps)]
         IN  IF ~isinstance_Step(last_step) \/ ~isinstance_Step(step)
             THEN [steps |-> self_steps, outcome |-> Raised("TypeError")]
             ELSE [steps |-> Append(self_steps, step), outcome |-> Returned(None)]
    ELSE [steps |-> Append(self_steps, step), outcome |-> Returned(None)]

RECURSIVE run_from(_, _, _, _)
\* the loop of Pipeline.run from the k-th step on; called lists the objects
\* whose process has been called
run_from(self_steps, k, data, called) ==
    IF k > Len(self_steps)
    THEN [outcome |-> Returned(data), called |-> called]
    ELSE IF ~has_process(self_steps[k])
    THEN [outcome |-> Raised("AttributeError"), called |-> called]
    ELSE LET out == process(self_steps[k], data)
         IN  IF out.kind = "raise"
             THEN [outcome |-> out, called |-> Append(called, self_steps[k])]
             ELSE run_from(self_steps, k + 1, out.value,
                           Append(called, self_steps[k]))

\* Pipeline.run
run(self_steps, input_data) == run_from(self_steps, 1, input_data, <<>>)

\* the texts given to run
InputTexts == { <<"h","i">>, <<"h","i"," ","y","o","u">>, <<>> }

InitPipeline ==
    /\ pc = "pipeline"
    /\ steps = <<>>
    /\ arg = <<>>
    /\ ret = <<>>
    /\ input_file = <<>>
    /\ geoFail = {}
    /\ routeFail = {}
    /\ source_data = <<>>
    /\ locations = <<>>
    /\ gtask = <<>>
    /\ geo_order = <<>>
    /\ location_pool = <<>>
    /\ rtask = <<>>
    /\ route_order = <<>>
    /\ routes = <<>>
    /\ trips = <<>>
    /\ output_file = <<>>
    /\ log = {}
    /\ result = "none"
    /\ timers = <<>>
    /\ now = 0

PipelineFrame ==
    UNCHANGED <<pc, timers, now, input_file, geoFail, routeFail, source_data,
                locations, gtask, geo_order, location_pool, rtask,
                route_order, routes, trips, output_file, log, result>>

\* pipeline.add_step(step); arg keeps the call, with the list it found
AddStep ==
    /\ pc = "pipeline"
    /\ Len(steps) < MaxSteps
    /\ \E step \in Objects :
          /\ arg' = <<"add_step", step, steps>>
          /\ steps' = add_step(steps, step).steps
          /\ ret' = <<add_step(steps, step).outcome>>
    /\ PipelineFrame

\* pipeline.run(input_data)
Run ==
    /\ pc = "pipeline"
    /\ \E text \in InputTexts :
          /\ arg' = <<"run", str(text), steps>>
          /\ ret' = <<run(steps, str(text))>>
    /\ UNCHANGED steps
    /\ PipelineFrame

NextPipeline ==
    \/ AddStep
    \/ Run

SpecPipeline == InitPipeline /\ [][NextPipeline]_vars

\* C35: add_step raises TypeError for every object that does not inherit
\* from Step, whatever the number of steps (also on an empty pipeline), and
\* leaves the step list unchanged then, so run only ever calls process on
\* Step instances.
C35_OnlyStepsAdded ==
    /\ (arg # <<>> /\ arg[1] = "add_step" /\ ~isinstance_Step(arg[2])) =>
          /\ ret[1].kind = "raise"
          /\ ret[1].value = "TypeError"
          /\ steps = arg[3]
    /\ \A k \in DOMAIN steps : isinstance_Step(steps[k])
    /\ (arg # <<>> /\ arg[1] = "run") =>
          \A k \in DOMAIN ret[1].called : isinstance_Step(ret[1].called[k])

\* the same for the calls of add_step that find a list of Step instances that
\* is not empty
NonStepRefusedAfterAStep ==
    (/\ arg # <<>>
     /\ arg[1] = "add_step"
     /\ ~isinstance_Step(arg[2])
     /\ arg[3] # <<>>) =>
        /\ ret[1].kind = "raise"
        /\ ret[1].value = "TypeError"
        /\ steps = arg[3]

====
